---- MODULE Spec2Model ----
(***************************************************************************)
(* The event / category-tree service of src/unnamed/part_001: an express   *)
(* application whose whole state lives in two PostgreSQL tables,           *)
(* public.events and public.categories (a self-referencing adjacency list  *)
(* with ON DELETE CASCADE).  Every handler issues exactly one SQL          *)
(* statement through pool.query; PostgreSQL runs a single statement        *)
(* atomically (autocommit), so one action of this module is one handler:   *)
(* the JavaScript checks before the statement, the statement with its      *)
(* constraint checks and cascades, and the response built from its result. *)
(* Concurrent requests interleave at the granularity of these statements,  *)
(* which is exactly the interleaving of the actions of Next.               *)
(*                                                                         *)
(* The process keeps no state of its own between requests (the pool is the *)
(* only module-level object), so the variables are the two tables and      *)
(* their two sequences.  What a handler answers is a function of the       *)
(* tables and of the request: the operators PostEvent .. PatchMove below   *)
(* give, for a request, the response and the tables it leaves behind.      *)
(***************************************************************************)
EXTENDS Integers, Sequences, FiniteSets, TLC

\* Largest value the categories_id_seq sequence hands out in the model.
MaxCatId == 3
\* Largest value the events_id_seq sequence hands out in the model.
MaxEventId == 2

\* SQL NULL, and the JavaScript null / undefined of a request body.
NULL == -1
\* The result of parseInt on a string that holds no number.
NaN == -2
\* VARCHAR(255): the longest label or name the tables accept.
MaxVarchar == 255
\* The handler never answers: its query does not terminate.
NoResponse == 0

VARIABLES
    events,       \* public.events: id -> [name]
    categories,   \* public.categories: id -> [label, parent_id, event_id]
    nextEventId,  \* next value of the SERIAL sequence of events.id
    nextCatId     \* next value of the SERIAL sequence of categories.id

vars == <<events, categories, nextEventId, nextCatId>>

----------------------------------------------------------------------------
\* Request inputs.

\* A text that fits VARCHAR(255), the empty text, and one that does not fit.
LongText == "L256"
Texts == {"", "A", LongText}
TextLen(t) == IF t = "" THEN 0 ELSE IF t = LongText THEN 256 ELSE 1

\* Identifiers a client may send: 0, every value the sequence can have handed
\* out, and one beyond.
CatIdInputs == 0 .. (MaxCatId + 1)
EventIdInputs == 0 .. (MaxEventId + 1)

\* `x ?? null`: only a missing value becomes null, 0 stays 0.
NullishOnly(x) == x

\* JavaScript truthiness of a number-or-null value: `x || null`.
OrNull(x) == IF x = NULL \/ x = 0 \/ x = NaN THEN NULL ELSE x

----------------------------------------------------------------------------
\* Helpers on the categories table.

RECURSIVE SetToSeq(_)
SetToSeq(S) ==
    IF S = {} THEN <<>>
    ELSE LET m == CHOOSE x \in S : \A y \in S : x <= y
         IN <<m>> \o SetToSeq(S \ {m})

CategoryRow(cats, c) ==
    [id |-> c, label |-> cats[c].label,
     parent_id |-> cats[c].parent_id, event_id |-> cats[c].event_id]

\* The rows c with c.parent_id = s.id for some s of S (the join condition
\* of both recursive queries and of the cascade; NULL joins nothing).
ChildrenOf(cats, S) == {c \in DOMAIN cats : cats[c].parent_id \in S}

Restrict(f, S) == [x \in S |-> f[x]]

----------------------------------------------------------------------------
\* The SQL statements, as PostgreSQL executes them on the two tables.

\* INSERT INTO public.events (name) VALUES ($1) RETURNING *
\* A name longer than VARCHAR(255) is rejected (SQLSTATE 22001); whether the
\* sequence value was already drawn when the statement fails depends on the
\* plan, so both outcomes are possible.
InsertEvent(evs, nextId, name) ==
    IF TextLen(name) > MaxVarchar
    THEN [code |-> "22001", rows |-> <<>>, events |-> evs,
          nextvals |-> {nextId, nextId + 1}]
    ELSE [code |-> "ok", rows |-> <<[id |-> nextId, name |-> name]>>,
          events |-> (nextId :> [name |-> name]) @@ evs,
          nextvals |-> {nextId + 1}]

\* An INSERT that gives the row the lowest id no row has, instead of the
\* next value of the sequence.
InsertCategoryLowestFreeId(cats, evs, nextId, label, parentId, eventId) ==
    LET id == CHOOSE i \in 1 .. nextId : i \notin DOMAIN cats /\
                  \A j \in 1 .. (i - 1) : j \in DOMAIN cats
        row == [label |-> label, parent_id |-> parentId, event_id |-> eventId]
        inserted == (id :> row) @@ cats
    IN  IF TextLen(label) > MaxVarchar
        THEN [code |-> "22001", rows |-> <<>>, categories |-> cats,
              nextvals |-> {nextId, nextId + 1}]
        ELSE IF /\ parentId = NULL \/ parentId \in DOMAIN inserted
                /\ eventId = NULL \/ eventId \in DOMAIN evs
        THEN [code |-> "ok", rows |-> <<CategoryRow(inserted, id)>>,
              categories |-> inserted, nextvals |-> {nextId + 1}]
        ELSE [code |-> "23503", rows |-> <<>>, categories |-> cats,
              nextvals |-> {nextId + 1}]

\* INSERT INTO public.categories (label, parent_id, event_id)
\*   VALUES ($1, $2, $3) RETURNING *
\* The row gets id = nextval of the sequence.  Both REFERENCES constraints
\* are checked after the row is in the table, so a parent_id equal to the
\* row's own new id is satisfied by the row itself.  A foreign-key failure
\* (SQLSTATE 23503) removes the row again, but the sequence value stays
\* consumed.
InsertCategory(cats, evs, nextId, label, parentId, eventId) ==
    LET row == [label |-> label, parent_id |-> parentId, event_id |-> eventId]
        inserted == (nextId :> row) @@ cats
    IN  IF TextLen(label) > MaxVarchar
        THEN [code |-> "22001", rows |-> <<>>, categories |-> cats,
              nextvals |-> {nextId, nextId + 1}]
        ELSE IF /\ parentId = NULL \/ parentId \in DOMAIN inserted
                /\ eventId = NULL \/ eventId \in DOMAIN evs
        THEN [code |-> "ok", rows |-> <<CategoryRow(inserted, nextId)>>,
              categories |-> inserted, nextvals |-> {nextId + 1}]
        ELSE [code |-> "23503", rows |-> <<>>, categories |-> cats,
              nextvals |-> {nextId + 1}]

\* A cascade that stops after the rows referencing the deleted row itself:
\* what the table would do if rows deleted by the cascade did not cascade
\* in turn.
OnDeleteCascadeOneLevel(cats, deleted) == deleted \cup ChildrenOf(cats, deleted)

\* parent_id ... REFERENCES public.categories(id) ON DELETE CASCADE:
\* deleting a row deletes every row whose parent_id is the deleted id, and
\* so on until no row references a deleted one.
RECURSIVE OnDeleteCascade(_, _)
OnDeleteCascade(cats, deleted) ==
    LET referencing == ChildrenOf(cats, deleted) \ deleted
    IN  IF referencing = {} THEN deleted
        ELSE OnDeleteCascade(cats, deleted \cup referencing)

\* DELETE FROM public.categories WHERE id = $1 RETURNING id
DeleteCategoryRow(cats, id) ==
    IF id \notin DOMAIN cats
    THEN [code |-> "ok", rowCount |-> 0, categories |-> cats]
    ELSE [code |-> "ok", rowCount |-> 1,
          categories |-> Restrict(cats, DOMAIN cats \ OnDeleteCascade(cats, {id}))]

\* The UPDATE on a parent_id column without its REFERENCES constraint.
UpdateParentUnchecked(cats, newParentId, id) ==
    IF id \notin DOMAIN cats
    THEN [code |-> "ok", rowCount |-> 0, categories |-> cats]
    ELSE [code |-> "ok", rowCount |-> 1,
          categories |-> [cats EXCEPT ![id].parent_id = newParentId]]

\* UPDATE public.categories SET parent_id = $1 WHERE id = $2 RETURNING id
\* No row matches: nothing is checked.  Otherwise the new parent_id must
\* reference an existing row (or be NULL), else SQLSTATE 23503.
UpdateParent(cats, newParentId, id) ==
    IF id \notin DOMAIN cats
    THEN [code |-> "ok", rowCount |-> 0, categories |-> cats]
    ELSE IF newParentId = NULL \/ newParentId \in DOMAIN cats
    THEN [code |-> "ok", rowCount |-> 1,
          categories |-> [cats EXCEPT ![id].parent_id = newParentId]]
    ELSE [code |-> "23503", rowCount |-> 0, categories |-> cats]

\* WITH RECURSIVE t AS (<base> UNION ALL SELECT c.* FROM categories c
\*                      INNER JOIN t ON c.parent_id = t.id)
\* PostgreSQL evaluates it iteratively: the working table starts as the base
\* rows; each round joins the working table with categories, appends the
\* result and makes it the new working table; it stops when a round yields
\* no row.  UNION ALL removes nothing, so on a cycle of parent_id edges no
\* round is ever empty and the query never terminates.  id is the primary key
\* and every row has one parent_id, so a working table holds no row twice
\* and is kept as a set of ids.  Once more rounds have run than there are
\* rows, some row was produced twice: the rounds repeat for ever.
RECURSIVE RecursiveUnionAll(_, _, _, _)
RecursiveUnionAll(cats, working, depth, acc) ==
    IF working = {} THEN [terminates |-> TRUE, rows |-> acc]
    ELSE IF depth >= Cardinality(DOMAIN cats)
    THEN [terminates |-> FALSE, rows |-> acc]
    ELSE LET ids == SetToSeq(working)
         IN  RecursiveUnionAll(cats, ChildrenOf(cats, working), depth + 1,
                 acc \o [i \in 1 .. Len(ids) |-> [id |-> ids[i], depth |-> depth]])

\* WITH RECURSIVE subtree AS (SELECT * FROM categories WHERE id = $1
\*   UNION ALL ...) SELECT * FROM subtree
\* The statement fixes no order of the rows; they are listed round by round.
SelectSubtree(cats, id) ==
    LET q == RecursiveUnionAll(cats, {id} \cap DOMAIN cats, 0, <<>>)
    IN  [terminates |-> q.terminates,
         rows |-> [i \in 1 .. Len(q.rows) |-> CategoryRow(cats, q.rows[i].id)]]

\* The roots query without its parent_id IS NULL condition.
SelectRootsAnyParent(cats, eventId) ==
    SetToSeq({c \in DOMAIN cats : cats[c].event_id = eventId})

\* SELECT * FROM public.categories WHERE event_id = $1 AND parent_id IS NULL
SelectRoots(cats, eventId) ==
    SetToSeq({c \in DOMAIN cats :
                 cats[c].event_id = eventId /\ cats[c].parent_id = NULL})

\* ORDER BY depth, id DESC
BeforeIdDescending(x, y) == x.depth < y.depth \/ (x.depth = y.depth /\ x.id > y.id)

\* ORDER BY depth, id
Before(x, y) == x.depth < y.depth \/ (x.depth = y.depth /\ x.id < y.id)

RECURSIVE OrderByDepthId(_)
OrderByDepthId(rows) ==
    IF rows = <<>> THEN <<>>
    ELSE LET first == CHOOSE i \in 1 .. Len(rows) :
                          \A j \in 1 .. Len(rows) : ~Before(rows[j], rows[i])
         IN  <<rows[first]>> \o
             OrderByDepthId([i \in 1 .. Len(rows) - 1 |->
                                IF i < first THEN rows[i] ELSE rows[i + 1]])

\* WITH RECURSIVE category_tree AS (SELECT *, 0 as depth FROM categories
\*     WHERE event_id = $1 AND parent_id IS NULL
\*   UNION ALL SELECT c.*, ct.depth + 1 FROM categories c
\*     INNER JOIN category_tree ct ON c.parent_id = ct.id)
\* SELECT * FROM category_tree ORDER BY depth, id
\* Only the base rows are filtered by event_id; the join is not.
SelectCategoryTree(cats, eventId) ==
    LET base == {c \in DOMAIN cats :
                    cats[c].event_id = eventId /\ cats[c].parent_id = NULL}
        q == RecursiveUnionAll(cats, base, 0, <<>>)
        sorted == OrderByDepthId(q.rows)
    IN  [terminates |-> q.terminates,
         rows |-> [i \in 1 .. Len(sorted) |->
                     [id |-> sorted[i].id,
                      label |-> cats[sorted[i].id].label,
                      parent_id |-> cats[sorted[i].id].parent_id,
                      event_id |-> cats[sorted[i].id].event_id,
                      depth |-> sorted[i].depth]]]

----------------------------------------------------------------------------
\* The handlers: the response each one sends and the table it leaves.

Reply(status, error, rows) == [status |-> status, error |-> error, rows |-> rows]

\* app.post('/events')
PostEvent(evs, nextId, name) ==
    IF name = ""
    THEN [reply |-> Reply(400, "Event name is required", <<>>),
          events |-> evs, nextvals |-> {nextId}]
    ELSE LET result == InsertEvent(evs, nextId, name)
         IN  [reply |-> IF result.code = "ok"
                        THEN Reply(201, "", result.rows)
                        ELSE Reply(500, "Failed to add event", <<>>),
              events |-> result.events, nextvals |-> result.nextvals]

\* app.post('/categories')
PostCategory(cats, evs, nextId, label, parentId, eventId) ==
    IF label = ""
    THEN [reply |-> Reply(400, "Category label is required", <<>>),
          categories |-> cats, nextvals |-> {nextId}]
    ELSE IF eventId = NULL
    THEN [reply |-> Reply(400, "eventId is required for a category", <<>>),
          categories |-> cats, nextvals |-> {nextId}]
    ELSE LET result == InsertCategory(cats, evs, nextId, label,
                                      OrNull(parentId), eventId)
         IN  [reply |-> IF result.code = "ok"
                        THEN Reply(201, "", result.rows)
                        ELSE IF result.code = "23503"
                        THEN Reply(400, "Invalid eventId or parentId", <<>>)
                        ELSE Reply(500, "Failed to add category", <<>>),
              categories |-> result.categories, nextvals |-> result.nextvals]

\* The delete handler without its rowCount test (it then answers 204 whether
\* or not a row was deleted, as the handler of src/src/index.ts does).
DeleteCategoryNoRowCount(cats, categoryId) ==
    IF categoryId = NaN
    THEN [reply |-> Reply(400, "Invalid category ID", <<>>), categories |-> cats]
    ELSE [reply |-> Reply(204, "", <<>>),
          categories |-> DeleteCategoryRow(cats, categoryId).categories]

\* app.delete('/categories/:id')
DeleteCategory(cats, categoryId) ==
    IF categoryId = NaN
    THEN [reply |-> Reply(400, "Invalid category ID", <<>>), categories |-> cats]
    ELSE LET result == DeleteCategoryRow(cats, categoryId)
         IN  [reply |-> IF result.rowCount = 0
                        THEN Reply(404, "Category not found", <<>>)
                        ELSE Reply(204, "", <<>>),
              categories |-> result.categories]

\* app.get('/categories/:id/subtree')
GetSubtree(cats, categoryId) ==
    IF categoryId = NaN
    THEN Reply(400, "Invalid category ID", <<>>)
    ELSE LET result == SelectSubtree(cats, categoryId)
         IN  IF result.terminates
             THEN Reply(200, "", result.rows)
             ELSE Reply(NoResponse, "", <<>>)

\* app.get('/events/:eventId/categories/root')
GetRoots(cats, eventIdNum) ==
    IF eventIdNum = NaN
    THEN Reply(400, "Invalid event ID", <<>>)
    ELSE Reply(200, "", [i \in 1 .. Len(SelectRoots(cats, eventIdNum)) |->
                            CategoryRow(cats, SelectRoots(cats, eventIdNum)[i])])

\* app.get('/events/:eventId/categories/tree')
GetTree(cats, eventIdNum) ==
    IF eventIdNum = NaN
    THEN Reply(400, "Invalid event ID", <<>>)
    ELSE LET result == SelectCategoryTree(cats, eventIdNum)
         IN  IF result.terminates
             THEN Reply(200, "", result.rows)
             ELSE Reply(NoResponse, "", <<>>)

\* The move handler without its test for newParentId == categoryId (as the
\* handler of src/src/index.ts, which runs the UPDATE at once).
PatchMoveNoSelfCheck(cats, categoryId, newParentId) ==
    IF categoryId = NaN
    THEN [reply |-> Reply(400, "Invalid category ID", <<>>), categories |-> cats]
    ELSE IF newParentId = NaN
    THEN [reply |-> Reply(400, "Invalid newParentId", <<>>), categories |-> cats]
    ELSE LET result == UpdateParent(cats, OrNull(newParentId), categoryId)
         IN  [reply |-> IF result.code = "23503"
                        THEN Reply(400, "Invalid category ID or newParentId", <<>>)
                        ELSE IF result.rowCount = 0
                        THEN Reply(404, "Category not found", <<>>)
                        ELSE Reply(200, "", <<>>),
              categories |-> result.categories]

\* app.patch('/categories/:id/move')
PatchMove(cats, categoryId, newParentId) ==
    IF categoryId = NaN
    THEN [reply |-> Reply(400, "Invalid category ID", <<>>), categories |-> cats]
    ELSE IF newParentId = NaN
    THEN [reply |-> Reply(400, "Invalid newParentId", <<>>), categories |-> cats]
    ELSE IF newParentId # NULL /\ newParentId = categoryId
    THEN [reply |-> Reply(400, "Cannot move a category to be a child of itself", <<>>),
          categories |-> cats]
    ELSE LET result == UpdateParent(cats, OrNull(newParentId), categoryId)
         IN  [reply |-> IF result.code = "23503"
                        THEN Reply(400, "Invalid category ID or newParentId", <<>>)
                        ELSE IF result.rowCount = 0
                        THEN Reply(404, "Category not found", <<>>)
                        ELSE Reply(200, "", <<>>),
              categories |-> result.categories]

----------------------------------------------------------------------------
\* The state machine.

\* The tables as the start-up script leaves them: dropped and re-created.
Init ==
    /\ events = <<>>
    /\ categories = <<>>
    /\ nextEventId = 1
    /\ nextCatId = 1

\* The sequences are unbounded; the model stops handing out values beyond
\* MaxEventId and MaxCatId.  A request that never reaches the INSERT is
\* handled whatever the sequence holds.
createEvent(name) ==
    LET h == PostEvent(events, nextEventId, name)
    IN  /\ name = "" \/ nextEventId <= MaxEventId
        /\ events' = h.events
        /\ nextEventId' \in h.nextvals
        /\ UNCHANGED <<categories, nextCatId>>

createCategory(label, parentId, eventId) ==
    LET h == PostCategory(categories, events, nextCatId, label, parentId, eventId)
    IN  /\ label = "" \/ eventId = NULL \/ nextCatId <= MaxCatId
        /\ categories' = h.categories
        /\ nextCatId' \in h.nextvals
        /\ UNCHANGED <<events, nextEventId>>

deleteCategory(id) ==
    /\ categories' = DeleteCategory(categories, id).categories
    /\ UNCHANGED <<events, nextEventId, nextCatId>>

moveSubtree(id, newParentId) ==
    /\ categories' = PatchMove(categories, id, newParentId).categories
    /\ UNCHANGED <<events, nextEventId, nextCatId>>

\* A subtree handler that removes what it has read.
fetchSubtreeAndRemove(id) ==
    /\ GetSubtree(categories, id).status # NoResponse
    /\ categories' = DeleteCategory(categories, id).categories
    /\ UNCHANGED <<events, nextEventId, nextCatId>>

\* The three GET handlers write nothing.  One whose query does not terminate
\* never completes.
fetchSubtree(id) ==
    /\ UNCHANGED vars
    /\ GetSubtree(categories, id).status # NoResponse

fetchRootCategories(eventId) ==
    /\ UNCHANGED vars
    /\ GetRoots(categories, eventId).status # NoResponse

fetchFullTree(eventId) ==
    /\ UNCHANGED vars
    /\ GetTree(categories, eventId).status # NoResponse

Next ==
    \/ \E name \in Texts : createEvent(name)
    \/ \E label \in Texts, parentId \in CatIdInputs \cup {NULL},
          eventId \in EventIdInputs \cup {NULL} :
            createCategory(label, parentId, eventId)
    \/ \E id \in CatIdInputs \cup {NaN} : deleteCategory(id)
    \/ \E id \in CatIdInputs \cup {NaN},
          newParentId \in CatIdInputs \cup {NULL, NaN} :
            moveSubtree(id, newParentId)
    \/ \E id \in CatIdInputs \cup {NaN} : fetchSubtree(id)
    \/ \E eventId \in EventIdInputs \cup {NaN} : fetchRootCategories(eventId)
    \/ \E eventId \in EventIdInputs \cup {NaN} : fetchFullTree(eventId)

Spec == Init /\ [][Next]_vars

----------------------------------------------------------------------------
\* Notions the properties are stated in.  They are computed by walking
\* parent_id upward from a category, not by the queries above.

\* The categories reached from c by following 1 .. n parent_id edges.
RECURSIVE Upward(_, _, _)
Upward(cats, c, n) ==
    IF n = 0 \/ c \notin DOMAIN cats THEN {}
    ELSE IF cats[c].parent_id \notin DOMAIN cats THEN {}
    ELSE {cats[c].parent_id} \cup Upward(cats, cats[c].parent_id, n - 1)

Ancestors(cats, c) == Upward(cats, c, Cardinality(DOMAIN cats))

\* The categories transitively parented under c.
Descendants(cats, c) == {d \in DOMAIN cats : c \in Ancestors(cats, d)}

\* The same walk over the parent edges that join two categories of event e.
RECURSIVE UpwardInEvent(_, _, _, _)
UpwardInEvent(cats, e, c, n) ==
    IF n = 0 \/ c \notin DOMAIN cats THEN {}
    ELSE IF cats[c].event_id # e \/ cats[c].parent_id \notin DOMAIN cats THEN {}
    ELSE IF cats[cats[c].parent_id].event_id # e THEN {}
    ELSE {cats[c].parent_id} \cup UpwardInEvent(cats, e, cats[c].parent_id, n - 1)

\* The number of parent edges from c up to its root; -1 when the walk from c
\* never reaches a root.
RECURSIVE EdgesToRoot(_, _, _)
EdgesToRoot(cats, c, n) ==
    IF cats[c].parent_id = NULL THEN 0
    ELSE IF n = 0 \/ cats[c].parent_id \notin DOMAIN cats THEN -1
    ELSE LET up == EdgesToRoot(cats, cats[c].parent_id, n - 1)
         IN  IF up = -1 THEN -1 ELSE up + 1

TrueDepth(cats, c) == EdgesToRoot(cats, c, Cardinality(DOMAIN cats))

\* The kind of outcome a response stands for.  Status 400 is sent both for
\* invalid input and for the refused self-move; the latter is told apart by
\* the one message the move handler sends for it.
Kind(reply) ==
    IF reply.status \in {200, 201, 204} THEN "Success"
    ELSE IF reply.status = 404 THEN "NotFoundError"
    ELSE IF reply.status = 500 THEN "BackendError"
    ELSE IF reply.status = 400
    THEN IF reply.error = "Cannot move a category to be a child of itself"
         THEN "InvariantViolation" ELSE "ValidationError"
    ELSE "NoResponse"

RowIds(rows) == {rows[i].id : i \in 1 .. Len(rows)}

\* A label or name the handlers and the column both accept.
ValidTexts == {t \in Texts : 1 <= TextLen(t) /\ TextLen(t) <= MaxVarchar}

----------------------------------------------------------------------------
\* The properties.

\* C1 (invariant I1): in every reachable state, within the categories of any
\* single event, no category is reached from itself by following one or more
\* parent edges.
C1_ParentRelationAcyclic ==
    \A c \in DOMAIN categories :
        c \notin UpwardInEvent(categories, categories[c].event_id, c,
                               Cardinality(DOMAIN categories))

\* C2: for existing categories C and D with D a proper descendant of C,
\* moveSubtree(C, D) fails with InvariantViolation and leaves every
\* category's parent unchanged.
C2_MoveUnderDescendantRefused ==
    \A c \in DOMAIN categories :
        \A d \in Descendants(categories, c) \ {c} :
            /\ Kind(PatchMove(categories, c, d).reply) = "InvariantViolation"
            /\ PatchMove(categories, c, d).categories = categories

\* C3: in every reachable state and for every identifier id, fetchSubtree(id)
\* answers with exactly the existing categories that are id or transitively
\* parented under id, each of them once; for an id that names no category
\* the answer is the empty sequence, not an error.
C3_SubtreeIsExactlyTheDescendants ==
    \A id \in CatIdInputs :
        LET reply == GetSubtree(categories, id)
            expected == IF id \in DOMAIN categories
                        THEN {id} \cup Descendants(categories, id) ELSE {}
        IN  /\ reply.status = 200
            /\ RowIds(reply.rows) = expected
            /\ Len(reply.rows) = Cardinality(expected)
            /\ \A i \in 1 .. Len(reply.rows) :
                   reply.rows[i] = CategoryRow(categories, reply.rows[i].id)


\* C4: for every existing category C, deleteCategory(C) succeeds and removes
\* exactly C and the categories transitively parented under C; every other
\* category stays, with its label, parent and event.
C4_DeleteRemovesExactlyTheSubtree ==
    \A c \in DOMAIN categories :
        LET h == DeleteCategory(categories, c)
            kept == DOMAIN categories \ ({c} \cup Descendants(categories, c))
        IN  /\ h.reply.status = 204
            /\ DOMAIN h.categories = kept
            /\ \A k \in kept : h.categories[k] = categories[k]

\* C4's case: a category with a descendant is deleted while another
\* category survives.
C4_Witness ==
    \E c \in DOMAIN categories :
        /\ Descendants(categories, c) \ {c} # {}
        /\ DOMAIN DeleteCategory(categories, c).categories # {}
        /\ DeleteCategory(categories, c).reply.status = 204

\* C5: right after a successful deleteCategory(C), fetchSubtree(C) answers
\* with the empty sequence, and a second deleteCategory(C) fails with
\* NotFoundError and leaves the table as the first one left it.
C5_DeletedCategoryIsGone ==
    \A c \in CatIdInputs :
        LET first == DeleteCategory(categories, c)
            second == DeleteCategory(first.categories, c)
        IN  Kind(first.reply) = "Success" =>
                /\ GetSubtree(first.categories, c) = Reply(200, "", <<>>)
                /\ Kind(second.reply) = "NotFoundError"
                /\ second.categories = first.categories

\* C5's case: a delete succeeds on a category that has a child.
C5_Witness ==
    \E c \in DOMAIN categories :
        /\ Kind(DeleteCategory(categories, c).reply) = "Success"
        /\ ChildrenOf(categories, {c}) \ {c} # {}
        /\ Len(GetSubtree(DeleteCategory(categories, c).categories, c).rows) = 0

\* C6 (invariant I2): in every reachable state, under every interleaving of
\* the create, move and delete statements, the parent of every category that
\* has one is an existing category.
C6_NoDanglingParent ==
    \A c \in DOMAIN categories :
        categories[c].parent_id # NULL => categories[c].parent_id \in DOMAIN categories

\* C6's case: category C has parent P; deleteCategory(P) takes C with it, and
\* a createCategory(parent = P) or moveSubtree(D, P) that comes after the
\* delete is refused, so neither order of the race leaves a dangling parent.
C6_Witness ==
    \E c, d \in DOMAIN categories :
        LET p == categories[c].parent_id
            after == DeleteCategory(categories, p).categories
        IN  /\ p \in DOMAIN categories \ {c}
            /\ c \notin DOMAIN after
            /\ d \in DOMAIN after
            /\ PostCategory(after, events, nextCatId, "A", p,
                            categories[d].event_id).reply.status = 400
            /\ PatchMove(after, d, p).reply.status = 400

\* C7: in every reachable state and for every event E, fetchFullTree(E)
\* answers with every category whose event is E exactly once, and the depth
\* attached to a returned category is the number of parent edges from it up
\* to its root.
C7_FullTreeListsEveryCategoryOfTheEvent ==
    \A e \in EventIdInputs :
        LET reply == GetTree(categories, e)
        IN  /\ reply.status = 200
            /\ \A c \in DOMAIN categories :
                   categories[c].event_id = e =>
                       Cardinality({i \in 1 .. Len(reply.rows) : reply.rows[i].id = c}) = 1
            /\ \A i \in 1 .. Len(reply.rows) :
                   reply.rows[i].depth = TrueDepth(categories, reply.rows[i].id)

\* C8: in every reachable state, a category that has a parent belongs to the
\* same event as that parent.
C8_ParentInSameEvent ==
    \A c \in DOMAIN categories :
        categories[c].parent_id \in DOMAIN categories =>
            categories[categories[c].parent_id].event_id = categories[c].event_id

\* C9: createCategory with a parentId naming an existing category of an
\* event other than eventId fails with ValidationError and adds no category.
\* (Stated for labels the column accepts.)
C9_CrossEventParentRefused ==
    \A label \in ValidTexts, p \in DOMAIN categories, e \in EventIdInputs :
        categories[p].event_id # e =>
            LET h == PostCategory(categories, events, nextCatId, label, p, e)
            IN  /\ Kind(h.reply) = "ValidationError"
                /\ h.categories = categories

\* C10: createCategory with a non-empty label, an existing eventId and a
\* parentId naming no existing category fails with ValidationError and
\* leaves the set of categories unchanged.  (Stated for labels the column
\* accepts.)
C10_UnknownParentRefused ==
    \A label \in ValidTexts, p \in CatIdInputs \ DOMAIN categories,
       e \in DOMAIN events :
        LET h == PostCategory(categories, events, nextCatId, label, p, e)
        IN  /\ Kind(h.reply) = "ValidationError"
            /\ DOMAIN h.categories = DOMAIN categories

\* C11: in every reachable state, cycles of parent edges included,
\* fetchSubtree(id) terminates with a finite answer for every id.
C11_SubtreeQueryTerminates ==
    \A id \in CatIdInputs : GetSubtree(categories, id).status # NoResponse

\* C12: a successful moveSubtree(C, P), P none or an existing category, sets
\* the parent of C to P and changes nothing else; and where fetchSubtree(C)
\* answered before the move, it answers with the same set after it, a set
\* contained in the answer of fetchSubtree(P).
C12_MoveChangesOnlyTheParent ==
    \A c \in DOMAIN categories, p \in DOMAIN categories \cup {NULL} :
        LET h == PatchMove(categories, c, p)
            before == GetSubtree(categories, c)
            after == GetSubtree(h.categories, c)
        IN  Kind(h.reply) = "Success" =>
                /\ DOMAIN h.categories = DOMAIN categories
                /\ h.categories[c] = [categories[c] EXCEPT !.parent_id = p]
                /\ \A k \in DOMAIN categories \ {c} : h.categories[k] = categories[k]
                /\ before.status = 200 =>
                       /\ after.status = 200
                       /\ RowIds(after.rows) = RowIds(before.rows)
                       /\ p # NULL =>
                              /\ GetSubtree(h.categories, p).status = 200
                              /\ RowIds(after.rows) \subseteq
                                     RowIds(GetSubtree(h.categories, p).rows)

\* C13: for every existing category C, moveSubtree(C, C) fails with
\* InvariantViolation and leaves the table unchanged.
C13_SelfMoveRefused ==
    \A c \in DOMAIN categories :
        /\ Kind(PatchMove(categories, c, c).reply) = "InvariantViolation"
        /\ PatchMove(categories, c, c).categories = categories

\* C13's case: a category with a parent and a child is moved under itself
\* and the handler answers 400.
C13_Witness ==
    \E c \in DOMAIN categories :
        /\ categories[c].parent_id \in DOMAIN categories \ {c}
        /\ ChildrenOf(categories, {c}) \ {c} # {}
        /\ PatchMove(categories, c, c).reply.status = 400

\* C14: whenever C names no existing category, moveSubtree(C, P)
\* fails with NotFoundError and leaves the table unchanged, for every P:
\* none, an existing category, a non-existent identifier, or C itself.
C14_MoveOfUnknownCategoryNotFound ==
    \A c \in CatIdInputs \ DOMAIN categories, p \in CatIdInputs \cup {NULL} :
        /\ Kind(PatchMove(categories, c, p).reply) = "NotFoundError"
        /\ PatchMove(categories, c, p).categories = categories

\* C15: for every existing category C, moveSubtree(C, P) with a provided P
\* that names no existing category fails with ValidationError and leaves C's
\* parent unchanged.
C15_MoveUnderUnknownParentRefused ==
    \A c \in DOMAIN categories, p \in CatIdInputs \ DOMAIN categories :
        LET h == PatchMove(categories, c, p)
        IN  /\ Kind(h.reply) = "ValidationError"
            /\ h.categories[c].parent_id = categories[c].parent_id

\* What a reader that runs on the table cats can list: the identifiers in
\* the answers of the three GET handlers, over all their inputs.
C16_Observed(cats) ==
    UNION ({RowIds(GetSubtree(cats, id).rows) : id \in CatIdInputs}
           \cup {RowIds(GetRoots(cats, e).rows) : e \in EventIdInputs}
           \cup {RowIds(GetTree(cats, e).rows) : e \in EventIdInputs})

\* C16: a delete-with-cascade is atomic towards concurrent readers.  The
\* DELETE is one step of the table: whenever a step removes a category C and
\* is a deleteCategory(C) step, every category of C's subtree is present in
\* the state before it, none is in the state after it, and no subtree, root
\* or full-tree query run on the state after it lists any of them.  There is
\* no state in between for a reader to run on.
C16_DeleteCascadeIsAtomic ==
    [][\A c \in DOMAIN categories \ DOMAIN categories' :
           deleteCategory(c) =>
               LET subtree == {c} \cup Descendants(categories, c)
               IN  /\ subtree \subseteq DOMAIN categories
                   /\ subtree \cap DOMAIN categories' = {}
                   /\ subtree \cap C16_Observed(categories') = {}]_vars

\* C16's case: a category with a child and a grandchild, all three listed by
\* the readers, is deleted and the table is left empty.
C16_Witness ==
    \E c \in DOMAIN categories, d \in DOMAIN categories, g \in DOMAIN categories :
        /\ c # d /\ d # g /\ c # g
        /\ categories[c].parent_id = NULL
        /\ categories[d].parent_id = c
        /\ categories[g].parent_id = d
        /\ {c, d, g} \subseteq C16_Observed(categories)
        /\ DeleteCategory(categories, c).reply.status = 204
        /\ DeleteCategory(categories, c).categories = <<>>

\* C17: two concurrent moveSubtree calls cannot together create a cycle.  For
\* existing categories A # B, neither an ancestor of the other, when
\* moveSubtree(A, B) and moveSubtree(B, A) run in either order (each handler
\* issues one UPDATE, so the interleavings are the two orders) at most one of
\* the two succeeds and no category of the resulting table is its own
\* ancestor.
C17_ConcurrentMovesCreateNoCycle ==
    \A a \in DOMAIN categories, b \in DOMAIN categories :
        (a # b /\ a \notin Ancestors(categories, b) /\ b \notin Ancestors(categories, a)) =>
            LET first == PatchMove(categories, a, b)
                second == PatchMove(first.categories, b, a)
            IN  /\ ~(Kind(first.reply) = "Success" /\ Kind(second.reply) = "Success")
                /\ \A c \in DOMAIN second.categories :
                       c \notin Ancestors(second.categories, c)

\* C18: for every event identifier E, fetchRootCategories(E) answers with
\* exactly the existing categories whose event is E and whose parent is
\* none, each of them once and as stored; the answer is the empty sequence,
\* not an error, when E has no categories and when E names no event.
C18_RootsAreExactlyTheParentlessOfTheEvent ==
    \A e \in EventIdInputs :
        LET reply == GetRoots(categories, e)
            expected == {c \in DOMAIN categories :
                            categories[c].event_id = e /\ categories[c].parent_id = NULL}
        IN  /\ reply.status = 200
            /\ RowIds(reply.rows) = expected
            /\ Len(reply.rows) = Cardinality(expected)
            /\ \A i \in 1 .. Len(reply.rows) :
                   reply.rows[i] = CategoryRow(categories, reply.rows[i].id)
            /\ (e \notin DOMAIN events
                   \/ \A c \in DOMAIN categories : categories[c].event_id # e) =>
                       reply.rows = <<>>

\* C18's case: the roots are fetched of an event that has a root category
\* and a category under it, of an existing event without categories and of
\* an identifier that names no event.
C18_Witness ==
    \E e \in DOMAIN events, f \in DOMAIN events, g \in EventIdInputs \ DOMAIN events :
        \E c \in DOMAIN categories, d \in DOMAIN categories :
            /\ categories[c].event_id = e /\ categories[c].parent_id = NULL
            /\ categories[d].event_id = e /\ categories[d].parent_id = c /\ d # c
            /\ \A k \in DOMAIN categories : categories[k].event_id # f
            /\ c \in RowIds(GetRoots(categories, e).rows)
            /\ d \notin RowIds(GetRoots(categories, e).rows)
            /\ GetRoots(categories, f) = Reply(200, "", <<>>)
            /\ GetRoots(categories, g) = Reply(200, "", <<>>)

\* The outcome C19 requires of createCategory(label, p, e) where the label is
\* non-empty, e names an existing event and p is none or a category of e:
\* success, with exactly one category added, whose identifier is not that of
\* an existing category, whose parent is p and whose event is e.
C19_Created(label, p, e) ==
    LET h == PostCategory(categories, events, nextCatId, label, p, e)
    IN  /\ Kind(h.reply) = "Success"
        /\ Len(h.reply.rows) = 1
        /\ h.reply.rows[1].id \notin DOMAIN categories
        /\ h.reply.rows[1] = [id |-> h.reply.rows[1].id, label |-> label,
                              parent_id |-> p, event_id |-> e]
        /\ DOMAIN h.categories = DOMAIN categories \cup {h.reply.rows[1].id}
        /\ h.categories[h.reply.rows[1].id] =
               [label |-> label, parent_id |-> p, event_id |-> e]
        /\ \A k \in DOMAIN categories : h.categories[k] = categories[k]

\* The outcome C19 requires of a createCategory that must be refused.
C19_Refused(label, p, e) ==
    LET h == PostCategory(categories, events, nextCatId, label, p, e)
    IN  Kind(h.reply) = "ValidationError" /\ h.categories = categories

\* The parents C19 speaks of for event e: none, or a category of e.
C19_ValidParents(e) ==
    {NULL} \cup {c \in DOMAIN categories : categories[c].event_id = e}

\* C19: createCategory fails with ValidationError, adding no category, when
\* the label is empty, when eventId is missing and when eventId names no
\* event; otherwise, with parentId none or a valid parent, it succeeds and
\* returns a new category with a fresh identifier, the given parent and the
\* given event.
C19_CreateCategoryOutcomes ==
    /\ \A p \in CatIdInputs \cup {NULL}, e \in EventIdInputs \cup {NULL} :
           C19_Refused("", p, e)
    /\ \A label \in Texts, p \in CatIdInputs \cup {NULL} :
           C19_Refused(label, p, NULL)
    /\ \A label \in Texts \ {""}, p \in CatIdInputs \cup {NULL},
          e \in EventIdInputs \ DOMAIN events :
           C19_Refused(label, p, e)
    /\ \A label \in Texts \ {""}, e \in DOMAIN events :
           \A p \in C19_ValidParents(e) : C19_Created(label, p, e)

\* C20: the sequence fetchFullTree(E) answers with is ordered by depth
\* ascending, then id ascending: of any two consecutive elements x then y,
\* depth(x) < depth(y), or depth(x) = depth(y) and id(x) < id(y).
C20_FullTreeOrderedByDepthThenId ==
    \A e \in EventIdInputs :
        LET reply == GetTree(categories, e)
        IN  /\ reply.status = 200
            /\ \A i \in 1 .. Len(reply.rows) - 1 :
                   \/ reply.rows[i].depth < reply.rows[i + 1].depth
                   \/ /\ reply.rows[i].depth = reply.rows[i + 1].depth
                      /\ reply.rows[i].id < reply.rows[i + 1].id

\* C20's case: a full tree with two categories of one depth next to each
\* other, and with a category listed after one of greater id because it is
\* deeper.
C20_Witness ==
    \E e \in EventIdInputs :
        LET rows == GetTree(categories, e).rows
        IN  /\ \E i \in 1 .. Len(rows) - 1 :
                   rows[i].depth = rows[i + 1].depth /\ rows[i].id < rows[i + 1].id
            /\ \E i \in 1 .. Len(rows) - 1 :
                   rows[i].depth < rows[i + 1].depth /\ rows[i].id > rows[i + 1].id

\* Every response the handlers send in the current state, over all inputs.
C21_Replies ==
    {PostEvent(events, nextEventId, name).reply : name \in Texts}
    \cup {PostCategory(categories, events, nextCatId, x[1], x[2], x[3]).reply :
             x \in Texts \X (CatIdInputs \cup {NULL}) \X (EventIdInputs \cup {NULL})}
    \cup {DeleteCategory(categories, id).reply : id \in CatIdInputs \cup {NaN}}
    \cup {PatchMove(categories, x[1], x[2]).reply :
             x \in (CatIdInputs \cup {NaN}) \X (CatIdInputs \cup {NULL, NaN})}
    \cup {GetSubtree(categories, id) : id \in CatIdInputs \cup {NaN}}
    \cup {GetRoots(categories, e) : e \in EventIdInputs \cup {NaN}}
    \cup {GetTree(categories, e) : e \in EventIdInputs \cup {NaN}}

\* What a response carries besides its message text.
C21_WithoutMessage(reply) == [status |-> reply.status, rows |-> reply.rows]

\* C21: the kind of a failure is determinable from the result alone.  The
\* response to moveSubtree(C, C) for an existing C (an InvariantViolation)
\* differs, the message text left aside, from every response that stands for
\* a ValidationError, a NotFoundError or a BackendError.
C21_InvariantViolationTellsItselfApart ==
    \A c \in DOMAIN categories, other \in C21_Replies :
        Kind(other) \in {"ValidationError", "NotFoundError", "BackendError"} =>
            C21_WithoutMessage(PatchMove(categories, c, c).reply)
                # C21_WithoutMessage(other)

\* C22: fetchSubtree does not change the store, and two fetchSubtree(id)
\* calls with no mutation between them answer with the same set of
\* categories.  No step that changes a table or a sequence is a
\* fetchSubtree step, so the second call runs on the state the first one ran
\* on; and in every state the set of rows of an answer is fixed by the table
\* alone, whatever order the query lists them in: it is id and the
\* categories parented under it, each as stored.
C22_FetchSubtreeIdempotent ==
    /\ [][vars' # vars => \A id \in CatIdInputs \cup {NaN} : ~fetchSubtree(id)]_vars
    /\ [](\A id \in CatIdInputs :
             LET reply == GetSubtree(categories, id)
             IN  reply.status = 200 =>
                     /\ RowIds(reply.rows) =
                            IF id \in DOMAIN categories
                            THEN {id} \cup Descendants(categories, id) ELSE {}
                     /\ \A i \in 1 .. Len(reply.rows) :
                            reply.rows[i] = CategoryRow(categories, reply.rows[i].id))

\* C22's case: the subtree is fetched of a category that has two categories
\* under it, and the answer lists the three.
C22_Witness ==
    \E c \in DOMAIN categories :
        /\ GetSubtree(categories, c).status = 200
        /\ Len(GetSubtree(categories, c).rows) = 3
        /\ Cardinality(RowIds(GetSubtree(categories, c).rows)) = 3

\* C23: category identifiers are never reallocated.  Every category has an
\* identifier the sequence has already handed out; and an identifier the
\* sequence has handed out that names no category (its category was deleted,
\* directly or by cascade, or its INSERT failed) names none after any step:
\* fetchSubtree of it answers with the empty sequence and deleteCategory of
\* it fails with NotFoundError, before the step and after it.
C23_IdentifiersNeverReallocated ==
    /\ [](\A c \in DOMAIN categories : 1 <= c /\ c < nextCatId)
    /\ [][\A c \in (1 .. (nextCatId - 1)) \ DOMAIN categories :
             /\ c < nextCatId'
             /\ c \notin DOMAIN categories'
             /\ GetSubtree(categories', c) = Reply(200, "", <<>>)
             /\ Kind(DeleteCategory(categories', c).reply) = "NotFoundError"
             /\ DeleteCategory(categories', c).categories = categories']_vars

\* C23's case: a category with a category under it is deleted, the next
\* createCategory succeeds with an identifier that is neither of the two, and
\* deleteCategory of either still fails with NotFoundError.
C23_Witness ==
    \E c \in DOMAIN categories, e \in DOMAIN events :
        LET removed == {c} \cup Descendants(categories, c)
            deleted == DeleteCategory(categories, c)
            created == PostCategory(deleted.categories, events, nextCatId, "A", NULL, e)
        IN  /\ removed # {c}
            /\ deleted.reply.status = 204
            /\ created.reply.status = 201
            /\ created.reply.rows[1].id \notin removed
            /\ \A r \in removed :
                   /\ r \notin DOMAIN created.categories
                   /\ DeleteCategory(created.categories, r).reply.status = 404

\* C24: fetchFullTree(E) answers only with categories whose event is E: in
\* every reachable state no category of another event is in the answer.
C24_FullTreeListsOnlyTheEvent ==
    \A e \in EventIdInputs :
        \A i \in 1 .. Len(GetTree(categories, e).rows) :
            GetTree(categories, e).rows[i].event_id = e

\* C25: when two deleteCategory(C) calls for the same existing category C
\* run concurrently, exactly one of them succeeds, the other fails with
\* NotFoundError, and the final table is the table after a single
\* deleteCategory(C).  Each call is one DELETE statement, so the two run in
\* one order or the other, and as they are the same call the two orders are
\* the same.
C25_ConcurrentDeletesOneSucceeds ==
    \A c \in DOMAIN categories :
        LET single == DeleteCategory(categories, c)
            other == DeleteCategory(single.categories, c)
            kinds == <<Kind(single.reply), Kind(other.reply)>>
        IN  /\ Cardinality({i \in 1 .. 2 : kinds[i] = "Success"}) = 1
            /\ Cardinality({i \in 1 .. 2 : kinds[i] = "NotFoundError"}) = 1
            /\ other.categories = single.categories
            /\ other.categories =
                   Restrict(categories, DOMAIN categories
                                          \ ({c} \cup Descendants(categories, c)))

\* C25's case: the category deleted twice has a child and a grandchild, and
\* the second delete answers 404.
C25_Witness ==
    \E c \in DOMAIN categories, d \in DOMAIN categories, g \in DOMAIN categories :
        /\ c # d /\ d # g /\ c # g
        /\ categories[d].parent_id = c
        /\ categories[g].parent_id = d
        /\ DeleteCategory(categories, c).reply.status = 204
        /\ DeleteCategory(DeleteCategory(categories, c).categories, c).reply.status = 404

\* C26: a parent identifier of 0 is treated as no parent.  createCategory
\* with parentId = 0, a label the column accepts and an existing event
\* succeeds and creates a root category of that event; moveSubtree(C, 0) for
\* an existing category C succeeds and makes C a root, changing nothing
\* else.  Neither fails with ValidationError.
C26_ParentZeroMeansNoParent ==
    /\ \A label \in ValidTexts, e \in DOMAIN events :
           LET h == PostCategory(categories, events, nextCatId, label, 0, e)
           IN  /\ h.reply.status = 201
               /\ h.reply.rows = <<[id |-> nextCatId, label |-> label,
                                    parent_id |-> NULL, event_id |-> e]>>
               /\ h.categories = (nextCatId :> [label |-> label, parent_id |-> NULL,
                                                event_id |-> e]) @@ categories
    /\ \A c \in DOMAIN categories :
           LET h == PatchMove(categories, c, 0)
           IN  /\ c # 0
               /\ h.reply.status = 200
               /\ h.categories = [categories EXCEPT ![c].parent_id = NULL]

\* C26's case: a category is created with parentId 0 while other categories
\* exist, and a category that has a parent is moved to 0.
C26_Witness ==
    \E c \in DOMAIN categories, e \in DOMAIN events :
        /\ categories[c].parent_id \in DOMAIN categories
        /\ PatchMove(categories, c, 0).reply.status = 200
        /\ PatchMove(categories, c, 0).categories[c].parent_id = NULL
        /\ PostCategory(categories, events, nextCatId, "A", 0, e).reply.status = 201
        /\ PostCategory(categories, events, nextCatId, "A", 0, e).reply.rows[1].parent_id = NULL

====
